---- MODULE Spec2Model ----
(***************************************************************************)
(* The scheduling core of the STOMP performance scheduler                  *)
(* (SchedulingAlgorithm): the randomized constructive engine, the partial  *)
(* fallback, the RED-day pass and the validator, as a state machine.       *)
(*                                                                         *)
(* A calendar date is an integer day number; DayOfWeek(d) = d % 7 with     *)
(* 0 = Sunday, as Date.getUTCDay() numbers the days.  A time of day is in  *)
(* minutes.  A show's id is its position in the supplied show list.        *)
(***************************************************************************)
EXTENDS Integers, Sequences, FiniteSets, TLC

VARIABLES
  shows,           \* this.shows: the supplied show list (never mutated)
  castMembers,     \* this.castMembers: the roster, in the supplied order
  tzWest,          \* the process's time zone is behind UTC (Date.getDay() of a date-only string)
  assignments,     \* this.assignments: show id -> role -> performer ("" = unfilled)
  offAssignments,  \* this.offAssignments: show id -> the performers selected OFF
  pc,              \* where autoGenerate stands
  attempt,         \* the loop counter of autoGenerate
  remaining,       \* the shows of the shuffled order not yet taken in this attempt
  cur,             \* the show assignRolesForShow is filling (0 = none)
  partialPos,      \* generatePartialSchedule: the number of (role, show) slots already visited
  partialErrors,   \* generatePartialSchedule: errors
  result,          \* the AutoGenerateResult returned
  path,            \* which return statement produced the result
  performerShowCache,  \* _performerShowCache: <<>> for null, else << the cached analysis >>
  validated,       \* the argument of the last call of validateSchedule
  validation       \* what the last call of validateSchedule returned or raised

vars == <<shows, castMembers, tzWest, assignments, offAssignments, pc, attempt,
          remaining, cur, partialPos, partialErrors, result, path,
          performerShowCache, validated, validation>>

-----------------------------------------------------------------------------
(* Program constants *)

roles == <<"Sarge", "Potato", "Mozzie", "Ringo", "Particle", "Bin", "Cornish", "Who">>

Roles == {roles[i] : i \in DOMAIN roles}

FEMALE_ONLY_ROLES == {"Bin", "Cornish"}

femaleNames == {"MOLLY", "JASMINE", "SERENA"}

MaxAttempts == 100

MaxConsecutive == 6

MaxWeekend == 4

MaxWeekly == 6

OnStage == 8

OffPerShow == 4

MinutesPerDay == 1440

-----------------------------------------------------------------------------
(* Generic helpers *)

Range(f) == {f[i] : i \in DOMAIN f}

Max(a, b) == IF a >= b THEN a ELSE b

Abs(a) == IF a >= 0 THEN a ELSE 0 - a

\* The elements of a finite set of integers, ascending by (key, element): a
\* stable Array.prototype.sort of elements that stand in ascending element order.
SortIdsBy(S, key) ==
  [k \in 1..Cardinality(S) |->
     CHOOSE x \in S :
       Cardinality({y \in S : key[y] < key[x] \/ (key[y] = key[x] /\ y < x)}) = k - 1]

SortedSeq(S) == SortIdsBy(S, [x \in S |-> x])

RECURSIVE SeqSum(_)
SeqSum(s) == IF s = <<>> THEN 0 ELSE Head(s) + SeqSum(Tail(s))

-----------------------------------------------------------------------------
(* Inputs *)

Show(date, time, status) == [date |-> date, time |-> time, status |-> status]

Member(name, eligibleRoles) == [name |-> name, eligibleRoles |-> eligibleRoles]

\* 15:00 and 20:00, the default matinee and evening times, in minutes
ShowTime == [matinee |-> 900, evening |-> 1200]

\* day numbers of one week, Monday to Sunday
Day == [mon |-> 1, tue |-> 2, wed |-> 3, thu |-> 4, fri |-> 5, sat |-> 6, sun |-> 7]

Matinee == ShowTime.matinee

Evening == ShowTime.evening

Mon == Day.mon

Tue == Day.tue

Wed == Day.wed

Thu == Day.thu

Fri == Day.fri

Sat == Day.sat

Sun == Day.sun

\* one performer per role
RosterOnePerRole ==
  << Member("PHIL", {"Sarge"}), Member("SEAN", {"Potato"}), Member("JAMIE", {"Mozzie"}),
     Member("ADAM", {"Ringo"}), Member("CARY", {"Particle"}), Member("MOLLY", {"Bin"}),
     Member("JASMINE", {"Cornish"}), Member("JOE", {"Who"}) >>

\* one performer per role and a swing who is not on the female allow-list
RosterWithSwing ==
  RosterOnePerRole \o << Member("CADE", {"Sarge", "Bin", "Who"}) >>

\* too few performers to fill a show
\* one performer, who lists Bin and is not on the allow-list
RosterNoFit == << Member("CADE", {"Bin"}) >>

RosterShort ==
  << Member("PHIL", {"Sarge", "Potato"}), Member("MOLLY", {"Bin"}) >>

\* a week whose only entry is a travel day
WeekTravel == << Show(Mon, Evening, "travel") >>

WeekOneShow == << Show(Mon, Evening, "show") >>

\* the number of evening shows of the week of evenings
NumEvenings == 2

\* evening shows on successive dates from Tuesday on
WeekEvenings == [i \in 1..NumEvenings |-> Show(Mon + i, Evening, "show")]

WeekCompanyDayOff ==
  << Show(Tue, Evening, "show"), Show(Wed, Evening, "dayoff"), Show(Thu, Evening, "show") >>

\* a date whose matinee is a day off and whose evening is a show
WeekSplitDayOff ==
  << Show(Sat, Matinee, "dayoff"), Show(Sat, Evening, "show") >>

WeekFull ==
  << Show(Tue, Evening, "show"), Show(Wed, Evening, "show"), Show(Fri, Matinee, "show"),
     Show(Fri, Evening, "show"), Show(Sat, Evening, "show"), Show(Sun, Matinee, "show"),
     Show(Sun, Evening, "show") >>

WeekFullDayOff == << Show(Mon, Evening, "dayoff") >> \o WeekFull

Scenario(showList_, roster, west) ==
  [shows |-> showList_, castMembers |-> roster, tzWest |-> west]

\* a company day off on Thursday, then Friday matinee and evening, Saturday
\* evening, Sunday matinee and evening
WeekendFive ==
  << Show(Thu, Evening, "dayoff"),
     Show(Fri, Matinee, "show"), Show(Fri, Evening, "show"), Show(Sat, Evening, "show"),
     Show(Sun, Matinee, "show"), Show(Sun, Evening, "show") >>

\* a company day off on Thursday, then Friday evening, Saturday evening,
\* Sunday matinee and evening
WeekendFour ==
  << Show(Thu, Evening, "dayoff"),
     Show(Fri, Evening, "show"), Show(Sat, Evening, "show"),
     Show(Sun, Matinee, "show"), Show(Sun, Evening, "show") >>

\* two shows on Saturday and two on Sunday
WeekendDoubles ==
  << Show(Sat, Matinee, "show"), Show(Sat, Evening, "show"),
     Show(Sun, Matinee, "show"), Show(Sun, Evening, "show") >>

Scenarios ==
  { Scenario(WeekOneShow, RosterOnePerRole, FALSE),
    Scenario(WeekEvenings, RosterWithSwing, FALSE),
    Scenario(WeekEvenings, RosterWithSwing, TRUE),
    Scenario(WeekCompanyDayOff, RosterOnePerRole, FALSE),
    Scenario(WeekSplitDayOff, RosterOnePerRole, FALSE),
    Scenario(WeekFull, RosterShort, FALSE),
    Scenario(WeekFullDayOff, RosterShort, FALSE),
    Scenario(WeekOneShow, RosterNoFit, FALSE),
    Scenario(WeekTravel, RosterOnePerRole, FALSE),
    Scenario(WeekOneShow, <<>>, FALSE) }

\* inputs on which an attempt is accepted at once, on which every attempt
\* fails, and on which the call ends in a catch block
TerminationScenarios ==
  { Scenario(WeekOneShow, RosterOnePerRole, FALSE),
    Scenario(WeekCompanyDayOff, RosterOnePerRole, FALSE),
    Scenario(WeekFull, RosterShort, FALSE),
    Scenario(WeekOneShow, RosterNoFit, FALSE),
    Scenario(WeekTravel, RosterOnePerRole, FALSE),
    Scenario(WeekOneShow, <<>>, FALSE) }

\* weeks in which the weekend rule decides
WeekendScenarios ==
  { Scenario(WeekendFive, RosterOnePerRole, FALSE),
    Scenario(WeekendFour, RosterOnePerRole, FALSE),
    Scenario(WeekendFive, RosterShort, FALSE),
    Scenario(WeekFull, RosterShort, FALSE),
    Scenario(WeekOneShow, <<>>, FALSE) }

\* weeks in which the back-to-back rule decides
DoubleDayScenarios ==
  { Scenario(WeekendDoubles, RosterOnePerRole, FALSE),
    Scenario(WeekOneShow, RosterOnePerRole, FALSE),
    Scenario(WeekFull, RosterShort, FALSE),
    Scenario(WeekOneShow, <<>>, FALSE) }

\* an evening show on Friday and one on Saturday
WeekFriSat == << Show(Fri, Evening, "show"), Show(Sat, Evening, "show") >>

\* weeks without a company day off in which the RED-day pass chooses between
\* dates
RedDayScenarios ==
  { Scenario(WeekFriSat, RosterWithSwing, FALSE),
    Scenario(WeekFull, RosterShort, FALSE),
    Scenario(WeekOneShow, <<>>, FALSE) }

\* one performer per role and two swings who both list Sarge
RosterTwoSwings ==
  RosterOnePerRole \o << Member("CADE", {"Sarge", "Who"}), Member("JOSH", {"Sarge", "Potato"}) >>

\* evening shows on Tuesday, Wednesday and Thursday
WeekThreeEvenings ==
  << Show(Tue, Evening, "show"), Show(Wed, Evening, "show"), Show(Thu, Evening, "show") >>

\* a Tuesday matinee and a Thursday evening: more than 2 and less than 3 days
\* from start to start
WeekGap == << Show(Tue, Matinee, "show"), Show(Thu, Evening, "show") >>

\* a week in which the show counts of the candidates for a role can be 2
\* apart, a week with a gap between 2 and 3 days, and inputs on which attempts
\* fail and on which the roster is loaded
WorkloadScenarios ==
  { Scenario(WeekThreeEvenings, RosterTwoSwings, FALSE),
    Scenario(WeekGap, RosterOnePerRole, FALSE),
    Scenario(WeekFull, RosterShort, FALSE),
    Scenario(WeekOneShow, <<>>, FALSE) }

\* twelve performers, each listing one role, except the two of the female
\* allow-list, who list Bin and Cornish
RosterTwelve ==
  << Member("PHIL", {"Sarge"}), Member("SEAN", {"Potato"}), Member("JAMIE", {"Mozzie"}),
     Member("ADAM", {"Ringo"}), Member("CARY", {"Particle"}), Member("JOE", {"Who"}),
     Member("JOSH", {"Sarge"}), Member("CADE", {"Potato"}), Member("ALEX", {"Mozzie"}),
     Member("TOM", {"Ringo"}),
     Member("MOLLY", {"Bin", "Cornish"}), Member("JASMINE", {"Bin", "Cornish"}) >>

\* the standard week of 8 shows: Tuesday to Friday evenings, matinee and
\* evening on Saturday and on Sunday
WeekStandard ==
  << Show(Tue, Evening, "show"), Show(Wed, Evening, "show"), Show(Thu, Evening, "show"),
     Show(Fri, Evening, "show"), Show(Sat, Matinee, "show"), Show(Sat, Evening, "show"),
     Show(Sun, Matinee, "show"), Show(Sun, Evening, "show") >>

\* the standard week with the roster of twelve, and inputs on which an attempt
\* is accepted and on which the roster is loaded
StandardWeekScenarios ==
  { Scenario(WeekStandard, RosterTwelve, FALSE),
    Scenario(WeekOneShow, RosterTwelve, FALSE),
    Scenario(WeekOneShow, <<>>, FALSE) }

\* weeks and a roster on which finished assignment lists are validated
ValidationScenarios ==
  { Scenario(WeekFull, RosterWithSwing, FALSE),
    Scenario(WeekCompanyDayOff, RosterWithSwing, FALSE),
    Scenario(WeekEvenings, RosterWithSwing, FALSE) }

-----------------------------------------------------------------------------
(* Shows and roster *)

ShowIds == DOMAIN shows

DayOfWeek(date) == date % 7

activeIn(list) == {s \in DOMAIN list : list[s].status = "show"}

\* shows with status "show", ascending by date and time, the sort stable
sortedActiveIn(list) ==
  SortIdsBy(activeIn(list),
            [s \in activeIn(list) |-> list[s].date * MinutesPerDay + list[s].time])

ShowLists ==
  {sc.shows : sc \in Scenarios \cup WeekendScenarios \cup DoubleDayScenarios
                  \cup ValidationScenarios \cup StandardWeekScenarios
                  \cup RedDayScenarios \cup WorkloadScenarios}

\* _sortedActiveShows and _showIndexMap: computed once for a show list
sortedActiveCache == [list \in ShowLists |-> sortedActiveIn(list)]

showIndexCache ==
  [list \in ShowLists |->
     [s \in activeIn(list) |->
        CHOOSE k \in DOMAIN sortedActiveCache[list] : sortedActiveCache[list][k] = s]]

ActiveShowIds == activeIn(shows)

dateTime(s) == shows[s].date * MinutesPerDay + shows[s].time

getSortedActiveShows == sortedActiveCache[shows]

\* getShowIndexMap: the position of an active show in show order
showIndex(s) == showIndexCache[shows][s]

allPerformers == [i \in DOMAIN castMembers |-> castMembers[i].name]

Names == Range(allPerformers)

castMember(p) == castMembers[CHOOSE i \in DOMAIN castMembers : castMembers[i].name = p]

EmptyShowAssignment == [r \in Roles |-> ""]

\* clearAllAssignments without the reset of the role maps
keptAssignments == assignments

clearAllAssignments == [s \in ShowIds |-> EmptyShowAssignment]

clearAllOff == [s \in ShowIds |-> {}]

-----------------------------------------------------------------------------
(* Constraint checker: predicates on the working assignment map *)

\* the shows whose role map names the performer (every key of a role map is a real role)
performerShowIds(performer) ==
  {s \in ShowIds : \E r \in Roles : assignments[s][r] = performer}

areShowsConsecutive(show1, show2) ==
  ((dateTime(show2) - dateTime(show1)) \div MinutesPerDay) <= 2

\* the loop of canAssignPerformerToShow over newIndices: the longest run found
RECURSIVE longestRun(_, _, _, _)
longestRun(indices, i, currentConsecutive, maxConsecutive) ==
  IF i > Len(indices) THEN maxConsecutive
  ELSE IF areShowsConsecutive(getSortedActiveShows[indices[i - 1]],
                              getSortedActiveShows[indices[i]])
       THEN longestRun(indices, i + 1, currentConsecutive + 1,
                       Max(maxConsecutive, currentConsecutive + 1))
       ELSE longestRun(indices, i + 1, 1, maxConsecutive)

\* [...performerShowIndices, targetIndex].sort(): targetIndex is appended even
\* when the performer already holds the target show
insertSorted(indices, x) ==
  LET below == SelectSeq(indices, LAMBDA y : y <= x)
      above == SelectSeq(indices, LAMBDA y : y > x)
  IN  below \o <<x>> \o above

canAssignPerformerToShow(performer, showId) ==
  IF showId \notin ActiveShowIds THEN TRUE
  ELSE LET performerShowIndices ==
             SortedSeq({showIndex(s) : s \in performerShowIds(performer) \cap ActiveShowIds})
           newIndices == insertSorted(performerShowIndices, showIndex(showId))
       IN  longestRun(newIndices, 2, 1, 1) <= MaxConsecutive

\* performerShows of the weekend and back-to-back checks: the target show and
\* the other active shows the performer holds
withTarget(performer, showId) ==
  {showId} \cup {s \in performerShowIds(performer) \cap ActiveShowIds : s # showId}

showsOnDate(S, date) == {s \in S : shows[s].date = date}

\* two dates one day apart on each of which the shows of S number exactly 2
hasBackToBackDoubles(S) ==
  \E s \in S :
    /\ Cardinality(showsOnDate(S, shows[s].date)) = 2
    /\ Cardinality(showsOnDate(S, shows[s].date + 1)) = 2

\* the check with the target show left out of performerShows
backToBackWithoutTarget(performer, showId) ==
  IF showId \notin ActiveShowIds THEN FALSE
  ELSE hasBackToBackDoubles(performerShowIds(performer) \cap ActiveShowIds)

wouldViolateBackToBackDoubleDays(performer, showId) ==
  IF showId \notin ActiveShowIds THEN FALSE
  ELSE hasBackToBackDoubles(withTarget(performer, showId))

\* the weekend test with Friday left out: dayOfWeek >= 6 || dayOfWeek === 0
isSatSun(dayOfWeek) == dayOfWeek >= 6 \/ dayOfWeek = 0

\* dayOfWeek >= 5 || dayOfWeek === 0
isFriSatSun(dayOfWeek) == dayOfWeek >= 5 \/ dayOfWeek = 0

\* the date of the Monday that keys a show's week
weekKey(date) ==
  LET dayOfWeek == DayOfWeek(date)
      offset == IF dayOfWeek = 0 THEN 0 - 6 ELSE 1 - dayOfWeek
  IN  date + offset

\* some weekend span holds more than 4 of the shows of S
exceedsWeekend(S) ==
  LET weekend == {s \in S : isFriSatSun(DayOfWeek(shows[s].date))}
  IN  \E s \in weekend :
        Cardinality({u \in weekend : weekKey(shows[u].date) = weekKey(shows[s].date)})
          > MaxWeekend

\* the weekend check with the target show left out of performerShows
weekendWithoutTarget(performer, showId) ==
  IF showId \notin ActiveShowIds THEN FALSE
  ELSE exceedsWeekend(performerShowIds(performer) \cap ActiveShowIds)

wouldViolateWeekendRule(performer, showId) ==
  IF showId \notin ActiveShowIds THEN FALSE
  ELSE exceedsWeekend(withTarget(performer, showId))

\* the weekly limit with > in place of >=
weeklyLimitOffByOne(performer) ==
  Cardinality(performerShowIds(performer)) > MaxWeekly

\* the weekly limit counting Object.keys, the role names, in place of the
\* performers: the count stays 0
weeklyLimitOverKeys(performer) ==
  Cardinality({s \in ShowIds : \E r \in Roles : r = performer}) >= MaxWeekly

hasExceededWeeklyLimit(performer) ==
  Cardinality(performerShowIds(performer)) >= MaxWeekly

\* the membership test over Object.keys, the role names, in place of the values
assignedAmongKeys(performer, showId) ==
  showId \in ShowIds /\ \E r \in Roles : r = performer

isPerformerAssignedToShow(performer, showId) ==
  \E r \in Roles : assignments[showId][r] = performer

getCurrentShowCount(performer) == Cardinality(performerShowIds(performer))

\* the eligibility test without the female allow-list
eligibleWithoutAllowList(performer, role) ==
  /\ performer \in Names
  /\ role \in castMember(performer).eligibleRoles

isPerformerEligibleForRole(performer, role) ==
  /\ performer \in Names
  /\ role \in castMember(performer).eligibleRoles
  /\ (role \in FEMALE_ONLY_ROLES => performer \in femaleNames)

\* the names of the legal candidates, in roster order
getEligiblePerformers(role, showId) ==
  SelectSeq(allPerformers,
    LAMBDA p :
      /\ role \in castMember(p).eligibleRoles
      /\ ~isPerformerAssignedToShow(p, showId)
      /\ canAssignPerformerToShow(p, showId)
      /\ ~wouldViolateWeekendRule(p, showId)
      /\ ~wouldViolateBackToBackDoubleDays(p, showId)
      /\ ~hasExceededWeeklyLimit(p)
      /\ isPerformerEligibleForRole(p, role))

-----------------------------------------------------------------------------
(* selectBestPerformer: Array.prototype.sort under a comparator that answers *)
(* at random when two show counts are within 1 of each other.  The sort is   *)
(* the engine's TimSort, which for fewer than 64 elements is one run count   *)
(* followed by a binary insertion sort; every answer the comparator can give *)
(* is followed.                                                             *)

\* the answers "comparefn(a, b) < 0" can take
comparesBelow(a, b) ==
  LET countDiff == getCurrentShowCount(a) - getCurrentShowCount(b)
  IN  IF Abs(countDiff) <= 1 THEN {TRUE, FALSE} ELSE {countDiff < 0}

\* CountAndMakeRun: the run lengths reachable from 0-based index idx
RECURSIVE runLengths(_, _, _, _)
runLengths(arr, isDescending, idx, runLength) ==
  IF idx >= Len(arr) THEN {runLength}
  ELSE UNION {IF below = isDescending
              THEN runLengths(arr, isDescending, idx + 1, runLength + 1)
              ELSE {runLength} : below \in comparesBelow(arr[idx + 1], arr[idx])}

reversePrefix(arr, n) ==
  [i \in 1..Len(arr) |-> IF i <= n THEN arr[n + 1 - i] ELSE arr[i]]

\* the binary search of BinaryInsertionSort: the insertion points reachable
RECURSIVE insertionPoints(_, _, _, _)
insertionPoints(arr, pivot, left, right) ==
  IF left >= right THEN {left}
  ELSE LET mid == left + ((right - left) \div 2)
       IN  UNION {IF below THEN insertionPoints(arr, pivot, left, mid)
                  ELSE insertionPoints(arr, pivot, mid + 1, right)
                  : below \in comparesBelow(pivot, arr[mid + 1])}

\* arr with the element at 0-based index start moved to 0-based index pos <= start
moveTo(arr, start, pos) ==
  [i \in 1..Len(arr) |->
     IF i - 1 < pos THEN arr[i]
     ELSE IF i - 1 = pos THEN arr[start + 1]
     ELSE IF i - 1 <= start THEN arr[i - 1]
     ELSE arr[i]]

RECURSIVE binaryInsertionSort(_, _)
binaryInsertionSort(arr, start) ==
  IF start >= Len(arr) THEN {arr}
  ELSE UNION {binaryInsertionSort(moveTo(arr, start, pos), start + 1)
              : pos \in insertionPoints(arr, arr[start + 1], 0, start)}

sortOutcomes(arr) ==
  IF Len(arr) < 2 THEN {arr}
  ELSE UNION {UNION {binaryInsertionSort(
                       IF isDescending THEN reversePrefix(arr, n) ELSE arr, n)
                     : n \in runLengths(arr, isDescending, 2, 2)}
              : isDescending \in comparesBelow(arr[2], arr[1])}

\* the names sortedPerformers[0] can be
selectBestPerformer(eligiblePerformers) ==
  {sorted[1] : sorted \in sortOutcomes(eligiblePerformers)}

-----------------------------------------------------------------------------
(* Assignment rows *)

Row(showId, role, performer, isRedDay) ==
  [showId |-> showId, role |-> role, performer |-> performer, isRedDay |-> isRedDay]

RECURSIVE Flatten(_)
Flatten(ss) == IF ss = <<>> THEN <<>> ELSE Head(ss) \o Flatten(Tail(ss))

showList == [s \in 1..Len(shows) |-> s]

\* convertToAssignments of a role map and an OFF map: the stage rows show by
\* show in role order, then the OFF rows show by show
convertRows(asg, off) ==
  LET stage(s) == LET filled == SelectSeq(roles, LAMBDA r : asg[s][r] # "")
                  IN  [i \in DOMAIN filled |-> Row(s, filled[i], asg[s][filled[i]], FALSE)]
      offs(s)  == LET names == SelectSeq(allPerformers, LAMBDA p : p \in off[s])
                  IN  [i \in DOMAIN names |-> Row(s, "OFF", names[i], FALSE)]
  IN  Flatten([s \in 1..Len(shows) |-> stage(s)]) \o Flatten([s \in 1..Len(shows) |-> offs(s)])

convertToAssignments == convertRows(assignments, offAssignments)


isStage(a) == a.role # "OFF"

-----------------------------------------------------------------------------
(* OFF selection of assignRolesForShow *)

\* eligibleForOff of selectOffMembersWithFairness for a role map
eligibleForOff(asg, showId) ==
  {p \in Names : ~\E r \in Roles : asg[showId][r] = p}

\* With fewer than 4 unassigned performers the fair selection returns them all
\* and the fallback selectOffMembersOld returns the same names; with exactly 4
\* the sort cannot change which names are returned.  With more than 4 the top
\* 4 of a sort with a random tie-break are returned: any 4 of them here.  The
\* order of the names within the list is not kept.
selectOffMembers(asg, showId) ==
  IF Cardinality(eligibleForOff(asg, showId)) <= OffPerShow
  THEN {eligibleForOff(asg, showId)}
  ELSE {S \in SUBSET eligibleForOff(asg, showId) : Cardinality(S) = OffPerShow}

-----------------------------------------------------------------------------
(* Validator *)

\* stage rows of a show, and of a performer on active shows
stageOfShow(rows, s) == SelectSeq(rows, LAMBDA a : a.showId = s /\ isStage(a))

stageOfPerformer(rows, p) ==
  SelectSeq(rows, LAMBDA a : a.performer = p /\ isStage(a) /\ a.showId \in ActiveShowIds)

rowsOnDate(rs, date) == Len(SelectSeq(rs, LAMBDA a : shows[a.showId].date = date))

\* the per-show checks of validateSchedule
showErrors(rows, s) ==
  LET stage == stageOfShow(rows, s)
      uniquePerformers == {stage[i].performer : i \in DOMAIN stage}
      filledRoles == {stage[i].role : i \in DOMAIN stage}
  IN  (IF Cardinality(uniquePerformers) < OnStage
       THEN {[kind |-> "missingPerformers", show |-> s]} ELSE {})
      \cup
      (IF Cardinality(uniquePerformers) > OnStage
       THEN {[kind |-> "tooManyPerformers", show |-> s]} ELSE {})
      \cup
      (IF Cardinality(filledRoles) < OnStage
       THEN {[kind |-> "missingRoles", show |-> s]} ELSE {})
      \cup
      {[kind |-> "unknownPerformer", show |-> s, performer |-> stage[i].performer]
         : i \in {j \in DOMAIN stage : stage[j].performer \notin Names}}
      \cup
      {[kind |-> "notInEligibleRoles", show |-> s, performer |-> stage[i].performer]
         : i \in {j \in DOMAIN stage :
                    /\ stage[j].performer \in Names
                    /\ stage[j].role \notin castMember(stage[j].performer).eligibleRoles}}
      \cup
      {[kind |-> "requiresFemale", show |-> s, performer |-> stage[i].performer]
         : i \in {j \in DOMAIN stage :
                    /\ stage[j].performer \in Names
                    /\ stage[j].role \in castMember(stage[j].performer).eligibleRoles
                    /\ stage[j].role \in FEMALE_ONLY_ROLES
                    /\ stage[j].performer \notin femaleNames}}
      \cup
      {[kind |-> "multipleRoles", show |-> s, performer |-> p]
         : p \in {q \in uniquePerformers :
                    Len(SelectSeq(stage, LAMBDA a : a.performer = q)) > 1}}

\* findConsecutiveSequences: the lengths of the maximal runs of a sorted index
\* list, from position i with the current run started at currentSequenceStart
RECURSIVE sequenceLengths(_, _, _)
sequenceLengths(sortedIndexes, i, currentSequenceStart) ==
  IF i > Len(sortedIndexes)
  THEN {Len(sortedIndexes) + 1 - currentSequenceStart}
  ELSE IF areShowsConsecutive(getSortedActiveShows[sortedIndexes[i - 1]],
                              getSortedActiveShows[sortedIndexes[i]])
       THEN sequenceLengths(sortedIndexes, i + 1, currentSequenceStart)
       ELSE {i - currentSequenceStart}
              \cup sequenceLengths(sortedIndexes, i + 1, i)

\* analyzeConsecutiveShows: for each roster performer the runs longer than 6
analyzeConsecutiveShows(rows) ==
  [p \in Names |->
     LET showIndexes == {showIndex(rows[i].showId) :
                           i \in {j \in DOMAIN rows :
                                    /\ isStage(rows[j])
                                    /\ rows[j].showId \in ActiveShowIds
                                    /\ rows[j].performer = p}}
     IN  IF showIndexes = {} THEN {}
         ELSE {n \in sequenceLengths(SortedSeq(showIndexes), 2, 1) : n > MaxConsecutive}]

\* analyzeConsecutiveShows with its cache: a cached analysis is returned
\* whatever the argument
cachedAnalysis(rows, cache) ==
  IF cache # <<>> THEN cache[1] ELSE analyzeConsecutiveShows(rows)

consecutiveErrors(performerData) ==
  {[kind |-> "consecutive", performer |-> p, count |-> n]
     : <<p, n>> \in {<<q, m>> \in Names \X (1..Len(shows)) : m \in performerData[q]}}

backToBackErrors(rows) ==
  {[kind |-> "backToBack", performer |-> p, date |-> d]
     : <<p, d>> \in {<<q, e>> \in Names \X {shows[s].date : s \in ActiveShowIds} :
                       /\ rowsOnDate(stageOfPerformer(rows, q), e) = 2
                       /\ rowsOnDate(stageOfPerformer(rows, q), e + 1) = 2}}

weekendErrors(rows) ==
  {[kind |-> "weekend", performer |-> p, week |-> w]
     : <<p, w>> \in {<<q, k>> \in Names \X {weekKey(shows[s].date) : s \in ActiveShowIds} :
                       Len(SelectSeq(stageOfPerformer(rows, q),
                                     LAMBDA a : /\ isFriSatSun(DayOfWeek(shows[a.showId].date))
                                                /\ weekKey(shows[a.showId].date) = k))
                         > MaxWeekend}}

\* the errors of validateSchedule that do not come from the RED-day section,
\* with the consecutive-show analysis it used
structuralErrors(rows, performerData) ==
  UNION {showErrors(rows, s) : s \in ActiveShowIds}
    \cup consecutiveErrors(performerData)
    \cup backToBackErrors(rows)
    \cup weekendErrors(rows)

\* the RED rows the RED-day section of validateSchedule looks at: OFF rows
\* flagged isRedDay of active shows
redDayAssignments(rows) ==
  SelectSeq(rows, LAMBDA a : a.role = "OFF" /\ a.isRedDay /\ a.showId \in ActiveShowIds)

\* performerRedDays holds an entry for roster members only; for any other
\* performer performerRedDays[a.performer] is undefined and reading its
\* includes raises a TypeError
redValidationThrows(rows) ==
  \E i \in DOMAIN redDayAssignments(rows) : redDayAssignments(rows)[i].performer \notin Names

performerRedDays(rows, p) ==
  {shows[redDayAssignments(rows)[i].showId].date
     : i \in {j \in DOMAIN redDayAssignments(rows) : redDayAssignments(rows)[j].performer = p}}

redDayErrors(rows) ==
  {[kind |-> "moreThanOneRedDay", performer |-> p]
     : p \in {q \in Names : Cardinality(performerRedDays(rows, q)) > 1}}
  \cup
  {[kind |-> "roleOnRedDay", performer |-> p, date |-> d]
     : <<p, d>> \in {<<q, e>> \in Names \X {shows[s].date : s \in ActiveShowIds} :
                       /\ e \in performerRedDays(rows, q)
                       /\ \E i \in DOMAIN rows :
                            /\ rows[i].performer = q
                            /\ rows[i].showId \in ActiveShowIds
                            /\ shows[rows[i].showId].date = e
                            /\ rows[i].role # "OFF"}}

redDayWarnings(rows) ==
  {[kind |-> "noRedDay", performer |-> p]
     : p \in {q \in Names : performerRedDays(rows, q) = {}}}

\* getShowCounts for the roster: the number of active shows in which the
\* performer holds a stage row (the count of any other name is NaN, which
\* compares false with everything)
getShowCounts(rows) ==
  [p \in Names |->
     Cardinality({rows[i].showId : i \in {j \in DOMAIN rows :
                                            /\ isStage(rows[j])
                                            /\ rows[j].showId \in ActiveShowIds
                                            /\ rows[j].performer = p}})]

\* Math.ceil(averageShows * 1.5) with averageShows = activeShows.length / castMembers.length
overworkedAbove ==
  (3 * Cardinality(ActiveShowIds) + 2 * Len(castMembers) - 1) \div (2 * Len(castMembers))

\* the show-distribution warnings of validateSchedule
distributionWarnings(rows) ==
  LET count == getShowCounts(rows)
      active == Cardinality(ActiveShowIds)
      under(p) == count[p] < 2 /\ count[p] > 0 /\ active >= 4
  IN  {[kind |-> "underutilized", performer |-> p] : p \in {q \in Names : under(q)}}
      \cup
      {[kind |-> "overworked", performer |-> p]
         : p \in {q \in Names : ~under(q) /\ count[q] > overworkedAbove /\ active > 4}}

\* validateSchedule on an instance whose _performerShowCache is cache
validateSchedule(rows, cache) ==
  LET errors == structuralErrors(rows, cachedAnalysis(rows, cache)) \cup redDayErrors(rows)
  IN  IF redValidationThrows(rows)
      THEN [thrown |-> TRUE, isValid |-> FALSE, errors |-> {}, warnings |-> {}]
      ELSE [thrown |-> FALSE, isValid |-> (errors = {}), errors |-> errors,
            warnings |-> redDayWarnings(rows) \cup distributionWarnings(rows)]

\* The error texts autoGenerate searches for: "exactly 8", "multiple roles",
\* "exceeds maximum of 6 consecutive", "back-to-back double days", "shows over a
\* weekend".  "needs exactly" and "not eligible" occur in no error text.
CriticalKinds == {"missingPerformers", "multipleRoles", "consecutive", "backToBack", "weekend"}

hasCriticalErrors(errors) == \E e \in errors : e.kind \in CriticalKinds

-----------------------------------------------------------------------------
(* RED-day pass *)

dayOffShowIds == {s \in ShowIds : shows[s].status = "dayoff"}

\* the earliest date of a show with status dayoff; 0 stands for null
detectCompanyDayOff ==
  IF dayOffShowIds = {} THEN 0
  ELSE CHOOSE d \in {shows[s].date : s \in dayOffShowIds} :
         \A s \in dayOffShowIds : d <= shows[s].date

\* new Date(date).getDay(): a date-only string is midnight UTC, and getDay()
\* reads it in local time, which is still the day before when behind UTC
localDay(date) == IF tzWest THEN (DayOfWeek(date) + 6) % 7 ELSE DayOfWeek(date)

isWeekend(date) == localDay(date) = 0 \/ localDay(date) = 6

getShowCountForDate(date) == Cardinality(showsOnDate(ActiveShowIds, date))

isBackToBackDoubleDay(date) ==
  /\ getShowCountForDate(date) >= 2
  /\ (getShowCountForDate(date + 1) >= 2 \/ getShowCountForDate(date - 1) >= 2)

\* Object.keys(showsByDate).sort(): the dates that have active shows, ascending
availableDates == SortedSeq({shows[s].date : s \in ActiveShowIds})

\* the dates on which the performer holds no stage row, ascending
performerNaturalDaysOff(rows, performer) ==
  SelectSeq(availableDates,
    LAMBDA date :
      Len(SelectSeq(rows, LAMBDA a : /\ a.performer = performer
                                     /\ a.showId \in showsOnDate(ActiveShowIds, date)
                                     /\ isStage(a))) = 0)

\* sortedDaysOff[0]: weekdays before weekends, then fewer shows, the sort stable
bestNaturalDay(naturalDaysOff) ==
  LET better(a, b) ==
        \/ (~isWeekend(a) /\ isWeekend(b))
        \/ (isWeekend(a) = isWeekend(b) /\ getShowCountForDate(a) < getShowCountForDate(b))
      idx == CHOOSE i \in DOMAIN naturalDaysOff :
               /\ \A j \in DOMAIN naturalDaysOff : ~better(naturalDaysOff[j], naturalDaysOff[i])
               /\ \A j \in 1..(i - 1) : better(naturalDaysOff[i], naturalDaysOff[j])
  IN  naturalDaysOff[idx]

redDayScore(date) ==
  (IF ~isWeekend(date) THEN 10 ELSE 0)
    + (IF ~isBackToBackDoubleDay(date) THEN 5 ELSE 0)
    + (3 - getShowCountForDate(date))

\* the loop over availableDates from position i; bestDate starts as
\* availableDates[0] and bestScore as -1
RECURSIVE bestForcedDay(_, _, _)
bestForcedDay(i, bestDate, bestScore) ==
  IF i > Len(availableDates) THEN bestDate
  ELSE IF redDayScore(availableDates[i]) > bestScore
       THEN bestForcedDay(i + 1, availableDates[i], redDayScore(availableDates[i]))
       ELSE bestForcedDay(i + 1, bestDate, bestScore)

hasNaturalDayOff(rows, performer) == performerNaturalDaysOff(rows, performer) # <<>>

\* performerRedDays[performer], when at least one date has active shows
performerRedDay(rows, performer) ==
  IF hasNaturalDayOff(rows, performer)
  THEN bestNaturalDay(performerNaturalDaysOff(rows, performer))
  ELSE bestForcedDay(1, availableDates[1], 0 - 1)

\* the RED-day pass without the forced removal
removedNever(stageRows, i) == FALSE

\* the forced removal on every date instead of the forced date
removedOnEveryDate(stageRows, i) ==
  LET a == stageRows[i]
  IN  /\ a.performer \in Names
      /\ a.showId \in ActiveShowIds
      /\ ~hasNaturalDayOff(stageRows, a.performer)
      /\ \A j \in 1..(i - 1) :
           ~(stageRows[j].showId = a.showId /\ stageRows[j].performer = a.performer)

\* The forced removal: for a performer without a natural day off, on each show
\* of the forced date, the first stage row of the performer is spliced out.
removedByForce(stageRows, i) ==
  LET a == stageRows[i]
  IN  /\ a.performer \in Names
      /\ a.showId \in ActiveShowIds
      /\ ~hasNaturalDayOff(stageRows, a.performer)
      /\ shows[a.showId].date = performerRedDay(stageRows, a.performer)
      /\ \A j \in 1..(i - 1) :
           ~(stageRows[j].showId = a.showId /\ stageRows[j].performer = a.performer)

keepIndexes(stageRows) == {i \in DOMAIN stageRows : ~removedByForce(stageRows, i)}

\* the branch of assignRedDays taken when a company day off exists
assignRedDaysCompany(rows) ==
  LET companyDayOffShowIds ==
        SelectSeq(showList, LAMBDA s : /\ shows[s].date = detectCompanyDayOff
                                       /\ shows[s].status = "dayoff")
      redRows == Flatten([k \in DOMAIN companyDayOffShowIds |->
                   [i \in DOMAIN allPerformers |->
                      Row(companyDayOffShowIds[k], "OFF", allPerformers[i], TRUE)]])
      all == rows \o redRows
  IN  [i \in DOMAIN all |->
         IF all[i].role = "OFF" /\ all[i].showId \notin Range(companyDayOffShowIds)
         THEN [all[i] EXCEPT !.isRedDay = FALSE]
         ELSE all[i]]

\* the branch taken without a company day off, when some date has active shows
assignRedDaysPersonal(rows) ==
  LET stageRows == [i \in DOMAIN SelectSeq(rows, isStage) |->
                      [SelectSeq(rows, isStage)[i] EXCEPT !.isRedDay = FALSE]]
      keep == keepIndexes(stageRows)
      kept == [k \in 1..Cardinality(keep) |-> stageRows[SortedSeq(keep)[k]]]
      activeList == SelectSeq(showList, LAMBDA s : shows[s].status = "show")
      offRows(s) ==
        LET names == SelectSeq(allPerformers,
                       LAMBDA p : Len(SelectSeq(kept, LAMBDA a : a.showId = s /\ a.performer = p)) = 0)
        IN  [i \in DOMAIN names |->
               Row(s, "OFF", names[i], performerRedDay(stageRows, names[i]) = shows[s].date)]
  IN  kept \o Flatten([k \in DOMAIN activeList |-> offRows(activeList[k])])

\* Without a company day off and without any active show, bestDate is
\* undefined and iterating showsByDate[undefined] raises a TypeError as soon as
\* the roster holds one performer.
assignRedDaysThrows ==
  detectCompanyDayOff = 0 /\ ActiveShowIds = {} /\ Len(castMembers) > 0

assignRedDays(rows) ==
  IF detectCompanyDayOff # 0 THEN assignRedDaysCompany(rows)
  ELSE assignRedDaysPersonal(rows)

-----------------------------------------------------------------------------
(* day-off fairness *)

\* the dates with shows on which no row of the list, OFF rows included, names
\* the performer
getPerformerDaysOff(rows) ==
  [p \in Names |->
     {d \in {shows[s].date : s \in ActiveShowIds} :
        ~\E i \in DOMAIN rows :
           /\ rows[i].performer = p
           /\ rows[i].showId \in ActiveShowIds
           /\ shows[rows[i].showId].date = d}]

\* the counts and the warnings: 3 or more days off, 2 days off, and two days
\* off on adjacent dates
validateDayOffFairness(rows) ==
  LET performerDaysOff == getPerformerDaysOff(rows)
      companyDayOff == detectCompanyDayOff
      performerDayOffCounts ==
        [p \in Names |->
           Cardinality(performerDaysOff[p])
             + (IF companyDayOff # 0 /\ companyDayOff \notin performerDaysOff[p] THEN 1 ELSE 0)]
  IN  [warnings |->
         {[kind |-> "manyDaysOff", performer |-> p, count |-> performerDayOffCounts[p]]
            : p \in {q \in Names : performerDayOffCounts[q] >= 3}}
         \cup
         {[kind |-> "daysOff", performer |-> p, count |-> performerDayOffCounts[p]]
            : p \in {q \in Names : performerDayOffCounts[q] = 2}}
         \cup
         {[kind |-> "consecutiveDaysOff", performer |-> x[1], date |-> x[2]]
            : x \in {y \in Names \X {shows[s].date : s \in ActiveShowIds} :
                       y[2] \in performerDaysOff[y[1]] /\ y[2] + 1 \in performerDaysOff[y[1]]}},
       performerDayOffCounts |-> performerDayOffCounts]

\* the fields dayOffStats and warnings of a result of autoGenerate with
\* success = true: computed from the rows it returns
dayOffStats == validateDayOffFairness(result.assignments).performerDayOffCounts

fairnessWarnings == validateDayOffFairness(result.assignments).warnings

-----------------------------------------------------------------------------
(* autoGenerate *)

NoResult == [success |-> FALSE, assignments |-> <<>>, errors |-> <<>>]

\* no call of validateSchedule was made yet
NoValidation == [thrown |-> FALSE, isValid |-> FALSE, errors |-> {}, warnings |-> {}]

InitWith(scenarios) ==
  /\ \E sc \in scenarios :
       /\ shows = sc.shows
       /\ castMembers = sc.castMembers
       /\ tzWest = sc.tzWest
  /\ assignments = [s \in DOMAIN shows |-> EmptyShowAssignment]
  /\ offAssignments = [s \in DOMAIN shows |-> {}]
  /\ pc = "start"
  /\ attempt = 0
  /\ remaining = {}
  /\ cur = 0
  /\ partialPos = 0
  /\ partialErrors = <<>>
  /\ result = NoResult
  /\ path = "none"
  /\ performerShowCache = <<>>
  /\ validated = <<>>
  /\ validation = NoValidation

Init == InitWith(Scenarios)

inputs == <<shows, castMembers, tzWest>>

\* the catch block with the error thrown again
rethrown(kind) == [pc |-> "thrown", result |-> NoResult]

\* the return of a catch block of autoGenerate: where the call ends and with
\* which result
caught(kind) ==
  [pc |-> "done",
   result |-> [success |-> FALSE, assignments |-> <<>>, errors |-> << [kind |-> kind] >>]]

\* the rosters getCastMembers of ./cast_members may deliver
loadedRosters == {<<>>, RosterOnePerRole}

\* the roster is empty: it is loaded from the company system
LoadCast ==
  /\ pc = "start"
  /\ castMembers = <<>>
  /\ \E loaded \in loadedRosters : castMembers' = loaded
  /\ pc' = "loaded"
  /\ UNCHANGED <<performerShowCache, validated, validation>>
  /\ UNCHANGED <<shows, tzWest, assignments, offAssignments, attempt, remaining, cur,
                 partialPos, partialErrors, result, path>>

\* the roster is empty and loading it raises: the inner catch returns
LoadFails ==
  /\ pc = "start"
  /\ castMembers = <<>>
  /\ pc' = caught("loadError").pc
  /\ result' = caught("loadError").result
  /\ path' = "loadError"
  /\ UNCHANGED <<performerShowCache, validated, validation>>
  /\ UNCHANGED <<inputs, assignments, offAssignments, attempt, remaining, cur, partialPos,
                 partialErrors>>

\* autoGenerate up to the head of the attempt loop
Start ==
  /\ pc \in (IF castMembers = <<>> THEN {"loaded"} ELSE {"start", "loaded"})
  /\ pc' = "loop"
  /\ attempt' = 0
  /\ assignments' = clearAllAssignments
  /\ offAssignments' = clearAllOff
  /\ performerShowCache' = <<>>
  /\ UNCHANGED <<validated, validation>>
  /\ UNCHANGED <<inputs, remaining, cur, partialPos, partialErrors, result, path>>

\* the loop head with <= in place of <
BeginAttemptOneMore(budget) ==
  /\ pc = "loop"
  /\ attempt <= budget
  /\ assignments' = clearAllAssignments
  /\ offAssignments' = clearAllOff
  /\ remaining' = ActiveShowIds
  /\ cur' = 0
  /\ pc' = "shows"
  /\ performerShowCache' = <<>>
  /\ UNCHANGED <<validated, validation>>
  /\ UNCHANGED <<inputs, attempt, partialPos, partialErrors, result, path>>

\* one more iteration of the attempt loop: clearAllAssignments, and
\* generateScheduleAttempt shuffles the active shows
BeginAttempt(budget) ==
  /\ pc = "loop"
  /\ attempt < budget
  /\ assignments' = clearAllAssignments
  /\ offAssignments' = clearAllOff
  /\ remaining' = ActiveShowIds
  /\ cur' = 0
  /\ pc' = "shows"
  /\ performerShowCache' = <<>>
  /\ UNCHANGED <<validated, validation>>
  /\ UNCHANGED <<inputs, attempt, partialPos, partialErrors, result, path>>

\* the next show of the shuffled order
TakeShow ==
  /\ pc = "shows"
  /\ \E s \in remaining :
       /\ cur' = s
       /\ remaining' = remaining \ {s}
  /\ pc' = "roles"
  /\ UNCHANGED <<performerShowCache, validated, validation>>
  /\ UNCHANGED <<inputs, assignments, offAssignments, attempt, partialPos, partialErrors,
                 result, path>>

\* assignRolesForShow takes the next role of its shuffled order and commits a
\* performer; after the last role it selects the OFF performers
AssignRole ==
  /\ pc = "roles"
  /\ \E role \in {r \in Roles : assignments[cur][r] = ""} :
       LET eligiblePerformers == getEligiblePerformers(role, cur)
       IN  /\ eligiblePerformers # <<>>
           /\ \E selected \in selectBestPerformer(eligiblePerformers) :
                LET next == [assignments EXCEPT ![cur][role] = selected]
                IN  /\ assignments' = next
                    /\ IF \A r \in Roles : next[cur][r] # ""
                       THEN /\ \E off \in selectOffMembers(next, cur) :
                                 offAssignments' = [offAssignments EXCEPT ![cur] = off]
                            /\ pc' = "shows"
                            /\ cur' = 0
                       ELSE UNCHANGED <<offAssignments, pc, cur>>
  /\ UNCHANGED <<performerShowCache, validated, validation>>
  /\ UNCHANGED <<inputs, attempt, remaining, partialPos, partialErrors, result, path>>

\* the next role has no legal candidate: the attempt returns false
FailRole ==
  /\ pc = "roles"
  /\ \E role \in {r \in Roles : assignments[cur][r] = ""} :
       getEligiblePerformers(role, cur) = <<>>
  /\ pc' = "loop"
  /\ attempt' = attempt + 1
  /\ cur' = 0
  /\ remaining' = {}
  /\ UNCHANGED <<performerShowCache, validated, validation>>
  /\ UNCHANGED <<inputs, assignments, offAssignments, partialPos, partialErrors, result, path>>

\* generateScheduleAttempt returned true: validate, and return the result of
\* the RED-day pass unless a critical error was found
FinishAttempt ==
  /\ pc = "shows"
  /\ remaining = {}
  /\ performerShowCache' = << cachedAnalysis(convertToAssignments, performerShowCache) >>
  /\ UNCHANGED <<validated, validation>>
  /\ LET rows == convertToAssignments
         errors == structuralErrors(rows, cachedAnalysis(rows, performerShowCache))
     IN  IF hasCriticalErrors(errors)
         THEN /\ pc' = "loop"
              /\ attempt' = attempt + 1
              /\ UNCHANGED <<result, path>>
         ELSE IF assignRedDaysThrows
         THEN /\ pc' = caught("algorithmError").pc
              /\ result' = caught("algorithmError").result
              /\ path' = "catch"
              /\ UNCHANGED attempt
         ELSE /\ pc' = "done"
              /\ result' = [success |-> TRUE, assignments |-> assignRedDays(rows),
                            errors |-> <<>>]
              /\ path' = "main"
              /\ UNCHANGED attempt
  /\ UNCHANGED <<inputs, assignments, offAssignments, remaining, cur, partialPos, partialErrors>>

-----------------------------------------------------------------------------
(* generatePartialSchedule *)

eligibleCount(role) ==
  Cardinality({i \in DOMAIN castMembers : role \in castMembers[i].eligibleRoles})

\* the roles by ascending number of eligible performers, the sort stable
getRolesByDifficulty ==
  LET order == SortIdsBy(DOMAIN roles, [i \in DOMAIN roles |-> eligibleCount(roles[i])])
  IN  [k \in DOMAIN order |-> roles[order[k]]]

BeginPartial(budget) ==
  /\ pc = "loop"
  /\ attempt >= budget
  /\ assignments' = clearAllAssignments
  /\ offAssignments' = clearAllOff
  /\ partialPos' = 0
  /\ partialErrors' = <<>>
  /\ pc' = "partial"
  /\ performerShowCache' = <<>>
  /\ UNCHANGED <<validated, validation>>
  /\ UNCHANGED <<inputs, attempt, remaining, cur, result, path>>

numActive == Cardinality(ActiveShowIds)

partialRole == getRolesByDifficulty[(partialPos \div numActive) + 1]

partialShow == getSortedActiveShows[(partialPos % numActive) + 1]

\* availableCast with the whole constraint checker applied
availableCastChecked(role, showId) ==
  SelectSeq(allPerformers,
    LAMBDA p :
      /\ role \in castMember(p).eligibleRoles
      /\ ~isPerformerAssignedToShow(p, showId)
      /\ ~hasExceededWeeklyLimit(p)
      /\ isPerformerEligibleForRole(p, role)
      /\ canAssignPerformerToShow(p, showId)
      /\ ~wouldViolateWeekendRule(p, showId)
      /\ ~wouldViolateBackToBackDoubleDays(p, showId))

availableCast(role, showId) ==
  SelectSeq(allPerformers,
    LAMBDA p :
      /\ role \in castMember(p).eligibleRoles
      /\ ~isPerformerAssignedToShow(p, showId)
      /\ ~hasExceededWeeklyLimit(p)
      /\ isPerformerEligibleForRole(p, role))

\* sortedCast[0]: the first performer of the least show count, the sort stable
leastLoaded(cast) ==
  cast[CHOOSE i \in DOMAIN cast :
         /\ \A j \in DOMAIN cast : getCurrentShowCount(cast[i]) <= getCurrentShowCount(cast[j])
         /\ \A j \in 1..(i - 1) : getCurrentShowCount(cast[j]) > getCurrentShowCount(cast[i])]

\* the next (role, show) slot is filled
PartialAssign ==
  /\ pc = "partial"
  /\ partialPos < Len(roles) * numActive
  /\ assignments[partialShow][partialRole] = ""
  /\ availableCast(partialRole, partialShow) # <<>>
  /\ assignments' = [assignments EXCEPT ![partialShow][partialRole] =
                       leastLoaded(availableCast(partialRole, partialShow))]
  /\ partialPos' = partialPos + 1
  /\ UNCHANGED <<performerShowCache, validated, validation>>
  /\ UNCHANGED <<inputs, offAssignments, pc, attempt, remaining, cur, partialErrors,
                 result, path>>

\* the next (role, show) slot has no available performer: an error is recorded
PartialSkip ==
  /\ pc = "partial"
  /\ partialPos < Len(roles) * numActive
  /\ assignments[partialShow][partialRole] = ""
  /\ availableCast(partialRole, partialShow) = <<>>
  /\ partialErrors' = Append(partialErrors,
                        [kind |-> "unfilled", show |-> partialShow, role |-> partialRole])
  /\ partialPos' = partialPos + 1
  /\ UNCHANGED <<performerShowCache, validated, validation>>
  /\ UNCHANGED <<inputs, assignments, offAssignments, pc, attempt, remaining, cur,
                 result, path>>

\* the result with the ternary of errors inverted: errors.length > 0 ? undefined : errors
partialResultErrorsDropped ==
  [success |-> Len(convertToAssignments) > 0,
   assignments |-> convertToAssignments,
   errors |-> IF Len(partialErrors) > 0 THEN <<>> ELSE partialErrors]

\* the result generatePartialSchedule returns once every slot was visited;
\* errors is <<>> where the code leaves it undefined
partialResult ==
  [success |-> Len(convertToAssignments) > 0,
   assignments |-> convertToAssignments,
   errors |-> partialErrors]

\* partialResult.success || partialResult.assignments.length > 0
returnsPartial(partial) == partial.success \/ Len(partial.assignments) > 0

\* every slot was visited: autoGenerate returns the partial result
PartialFinish ==
  /\ pc = "partial"
  /\ partialPos >= Len(roles) * numActive
  /\ IF ~returnsPartial(partialResult)
     THEN /\ result' = [success |-> partialResult.success, assignments |-> partialResult.assignments,
                        errors |-> partialResult.errors]
          /\ path' = "empty"
          /\ pc' = "done"
     ELSE IF assignRedDaysThrows
     THEN /\ result' = caught("algorithmError").result
          /\ path' = "catch"
          /\ pc' = caught("algorithmError").pc
     ELSE /\ result' = [success |-> TRUE, assignments |-> assignRedDays(partialResult.assignments),
                        errors |-> partialResult.errors]
          /\ path' = "partial"
          /\ pc' = "done"
  /\ UNCHANGED <<performerShowCache, validated, validation>>
  /\ UNCHANGED <<inputs, assignments, offAssignments, attempt, remaining, cur, partialPos,
                 partialErrors>>

\* the attempt budget of the specifications of the weekend and double-day
\* scenarios, in which it stands for the 100 of autoGenerate
AttemptBound == 2

NextWith(budget) ==
  \/ LoadCast
  \/ LoadFails
  \/ Start
  \/ BeginAttempt(budget)
  \/ TakeShow
  \/ AssignRole
  \/ FailRole
  \/ FinishAttempt
  \/ BeginPartial(budget)
  \/ PartialAssign
  \/ PartialSkip
  \/ PartialFinish

Next == NextWith(MaxAttempts)

Spec == Init /\ [][Next]_vars

InitTermination == InitWith(TerminationScenarios)

\* the step that validates a complete attempt, named by its guard and by
\* where it leaves the loop body: FinishAttempt can be taken in every state
\* that satisfies its guard, and it always leaves pc = "shows"
leavesAttempt ==
  /\ pc = "shows"
  /\ remaining = {}
  /\ pc' \in {"loop", "done"}

\* the step that returns after partial generation, named in the same way
leavesPartial ==
  /\ pc = "partial"
  /\ partialPos >= Len(roles) * numActive
  /\ pc' = "done"

\* the steps of autoGenerate other than the two above
stepsWithin ==
  \/ LoadCast
  \/ LoadFails
  \/ Start
  \/ BeginAttempt(MaxAttempts)
  \/ TakeShow
  \/ AssignRole
  \/ FailRole
  \/ BeginPartial(MaxAttempts)
  \/ PartialAssign
  \/ PartialSkip

\* autoGenerate runs on: a step that can be taken is taken
SpecFair ==
  /\ InitTermination
  /\ [][Next]_vars
  /\ WF_vars(stepsWithin)
  /\ WF_pc(leavesAttempt)
  /\ WF_pc(leavesPartial)

-----------------------------------------------------------------------------
(* validateSchedule called on a constructed instance *)

\* the first roster member who lists the role
firstFor(role) ==
  allPerformers[CHOOSE i \in DOMAIN allPerformers :
                  /\ role \in castMember(allPerformers[i]).eligibleRoles
                  /\ \A j \in 1..(i - 1) : role \notin castMember(allPerformers[j]).eligibleRoles]

\* the last roster member
swing == allPerformers[Len(allPerformers)]

\* a show cast role by role, and the first n shows of the week cast that way
castOf(s) == [i \in DOMAIN roles |-> Row(s, roles[i], firstFor(roles[i]), FALSE)]

castOfFirst(n) == Flatten([k \in 1..n |-> castOf(getSortedActiveShows[k])])

firstActive == getSortedActiveShows[1]

lastActive == getSortedActiveShows[Len(getSortedActiveShows)]

\* what an editor may have done to a list before it is validated
Edits == {"none", "unknownInRole", "unknownRedDay", "oneRedDay", "twoRedDays", "swingOnce"}

edited(rows, edit) ==
  CASE edit = "none" -> rows
    [] edit = "unknownInRole" -> Append(rows, Row(firstActive, "Sarge", "GUEST", FALSE))
    [] edit = "unknownRedDay" -> Append(rows, Row(firstActive, "OFF", "GUEST", TRUE))
    [] edit = "oneRedDay" -> Append(rows, Row(firstActive, "OFF", swing, TRUE))
    [] edit = "twoRedDays" -> rows \o << Row(firstActive, "OFF", swing, TRUE),
                                         Row(lastActive, "OFF", swing, TRUE) >>
    [] edit = "swingOnce" -> IF rows = <<>> THEN rows
                             ELSE [rows EXCEPT ![1].performer = swing]

\* the assignment lists validateSchedule is called with
AssignmentLists ==
  {edited(castOfFirst(n), edit) : n \in 0..Cardinality(ActiveShowIds), edit \in Edits}

\* one call of validateSchedule; the analysis of consecutive shows is cached
\* before the RED-day section can raise
Validate ==
  /\ pc = "start"
  /\ \E rows \in AssignmentLists :
       /\ validated' = rows
       /\ validation' = validateSchedule(rows, performerShowCache)
       /\ performerShowCache' = << cachedAnalysis(rows, performerShowCache) >>
  /\ UNCHANGED <<inputs, assignments, offAssignments, pc, attempt, remaining, cur,
                 partialPos, partialErrors, result, path>>

InitValidate == InitWith(ValidationScenarios)

NextValidate == Validate

SpecValidate == InitValidate /\ [][NextValidate]_vars

-----------------------------------------------------------------------------
(* The runs of autoGenerate in which shuffle returns its argument unchanged  *)
(* and the random comparator of selectBestPerformer leaves the earliest      *)
(* roster member in front: each is a run the program can make.               *)

\* the first show of the sorted order not yet taken
unshuffledShow ==
  CHOOSE s \in remaining : \A u \in remaining : showIndex(s) <= showIndex(u)

\* the first role of this.roles not yet filled in the current show
unshuffledRole ==
  roles[CHOOSE i \in DOMAIN roles :
          /\ assignments[cur][roles[i]] = ""
          /\ \A j \in 1..(i - 1) : assignments[cur][roles[j]] # ""]

\* the earliest roster member among the performers selectBestPerformer can return
firstCandidate(role) ==
  LET eligiblePerformers == getEligiblePerformers(role, cur)
      best == selectBestPerformer(eligiblePerformers)
  IN  eligiblePerformers[CHOOSE i \in DOMAIN eligiblePerformers :
                           /\ eligiblePerformers[i] \in best
                           /\ \A j \in 1..(i - 1) : eligiblePerformers[j] \notin best]

TakeShowUnshuffled ==
  /\ TakeShow
  /\ cur' = unshuffledShow

AssignRoleUnshuffled ==
  /\ pc = "roles"
  /\ getEligiblePerformers(unshuffledRole, cur) # <<>>
  /\ AssignRole
  /\ assignments'[cur][unshuffledRole] = firstCandidate(unshuffledRole)

FailRoleUnshuffled ==
  /\ FailRole
  /\ getEligiblePerformers(unshuffledRole, cur) = <<>>

\* the shuffles return their argument; the comparator of selectBestPerformer
\* answers as it may
AssignRoleInOrder ==
  /\ pc = "roles"
  /\ getEligiblePerformers(unshuffledRole, cur) # <<>>
  /\ AssignRole
  /\ assignments'[cur][unshuffledRole] # ""

InitWorkload == InitWith(WorkloadScenarios)

NextInOrder ==
  \/ LoadCast
  \/ LoadFails
  \/ Start
  \/ BeginAttempt(AttemptBound)
  \/ TakeShowUnshuffled
  \/ AssignRoleInOrder
  \/ FailRoleUnshuffled
  \/ FinishAttempt
  \/ BeginPartial(AttemptBound)
  \/ PartialAssign
  \/ PartialSkip
  \/ PartialFinish

SpecInOrder == InitWorkload /\ [][NextInOrder]_vars

InitStandardWeek == InitWith(StandardWeekScenarios)

NextUnshuffled ==
  \/ LoadCast
  \/ LoadFails
  \/ Start
  \/ BeginAttempt(MaxAttempts)
  \/ TakeShowUnshuffled
  \/ AssignRoleUnshuffled
  \/ FailRoleUnshuffled
  \/ FinishAttempt
  \/ BeginPartial(MaxAttempts)
  \/ PartialAssign
  \/ PartialSkip
  \/ PartialFinish

SpecUnshuffled == InitStandardWeek /\ [][NextUnshuffled]_vars

InitWeekend == InitWith(WeekendScenarios)

NextWeekend == NextWith(AttemptBound)

SpecWeekend == InitWeekend /\ [][NextWeekend]_vars

InitRedDays == InitWith(RedDayScenarios)

NextRedDays == NextWith(AttemptBound)

SpecRedDays == InitRedDays /\ [][NextRedDays]_vars

InitDoubleDays == InitWith(DoubleDayScenarios)

NextDoubleDays == NextWith(AttemptBound)

SpecDoubleDays == InitDoubleDays /\ [][NextDoubleDays]_vars

-----------------------------------------------------------------------------
(* Properties of the returned schedule and of the working map *)

returned == pc = "done"

\* the performer holds a real role in the show, in a list of rows
holdsRole(rows, p, s) ==
  \E i \in DOMAIN rows : rows[i].performer = p /\ rows[i].showId = s /\ rows[i].role # "OFF"

holdsOff(rows, p, s) ==
  \E i \in DOMAIN rows : rows[i].performer = p /\ rows[i].showId = s /\ rows[i].role = "OFF"

\* the shows in which the performer holds a real role
roleShows(rows, p) == {s \in ShowIds : holdsRole(rows, p, s)}

\* the dates of the performer's rows with isRedDay = true
redDates(rows, p) ==
  {shows[rows[i].showId].date : i \in {j \in DOMAIN rows : rows[j].performer = p /\ rows[j].isRedDay}}

\* the performer holds a role on every date that has a show: no natural day off
worksEveryDate(p) ==
  \A s \in ActiveShowIds :
    \E u \in ActiveShowIds :
      shows[u].date = shows[s].date /\ \E r \in Roles : assignments[u][r] = p

\* C1: in a schedule returned from an accepted constructive attempt, every show
\* with status show has exactly 8 distinct performers in real roles and every
\* other roster performer holds OFF for it.
C1_HeadcountAfterRedDays ==
  (returned /\ path = "main") =>
    \A s \in ActiveShowIds :
      /\ Cardinality({p \in Names : holdsRole(result.assignments, p, s)}) = 8
      /\ \A p \in Names :
           ~holdsRole(result.assignments, p, s) => holdsOff(result.assignments, p, s)

\* C2: in a schedule returned with success = true every roster performer has
\* at least one row with isRedDay = true, and the rows with isRedDay = true of
\* one performer lie on a single date.
C2_RedDayCoverage ==
  (returned /\ result.success) =>
    \A p \in Names : Cardinality(redDates(result.assignments, p)) = 1

\* a successful result for a performer who worked on every date: a forced RED day
C2_ForcedRedDay ==
  /\ returned
  /\ result.success
  /\ detectCompanyDayOff = 0
  /\ \E p \in Names : worksEveryDate(p) /\ redDates(result.assignments, p) # {}

\* C3: in a returned schedule a performer holds no real role in a show with
\* status show whose date is a date of one of the performer's RED rows.
C3_NoRoleOnRedDate ==
  returned =>
    \A p \in Names : \A s \in ActiveShowIds :
      shows[s].date \in redDates(result.assignments, p)
        => ~holdsRole(result.assignments, p, s)

\* C4: a returned list of a successful result holds exactly one row for every
\* roster performer and every show with status show.
C4_OneRowPerPerformerAndShow ==
  (returned /\ result.success) =>
    \A p \in Names : \A s \in ActiveShowIds :
      Len(SelectSeq(result.assignments, LAMBDA a : a.performer = p /\ a.showId = s)) = 1

\* C5: no performer holds more than one real role in one show, in the working
\* map at every point of a constructive attempt and of partial generation, and
\* in the returned schedule.
C5_OneRolePerShow ==
  /\ \A s \in ShowIds : \A p \in Names :
       Cardinality({r \in Roles : assignments[s][r] = p}) <= 1
  /\ returned =>
       \A s \in ShowIds : \A p \in Names :
         Len(SelectSeq(result.assignments,
                       LAMBDA a : a.performer = p /\ a.showId = s /\ a.role # "OFF")) <= 1

\* a role is open in the current show while a performer whose role list holds
\* it is already on stage in that show
C5_CandidateAlreadyInShow ==
  /\ pc = "roles"
  /\ \E role \in Roles : \E p \in Names :
       /\ assignments[cur][role] = ""
       /\ role \in castMember(p).eligibleRoles
       /\ \E r \in Roles : assignments[cur][r] = p

\* C6: every real-role row of a returned schedule names a performer whose
\* eligibleRoles holds the role, and every Bin or Cornish row names a performer
\* of the female allow-list.
C6_EligibleAndAllowListed ==
  returned =>
    \A i \in DOMAIN result.assignments :
      LET a == result.assignments[i]
      IN  a.role # "OFF" =>
            /\ \E m \in DOMAIN castMembers :
                 castMembers[m].name = a.performer /\ a.role \in castMembers[m].eligibleRoles
            /\ (a.role \in {"Bin", "Cornish"} => a.performer \in femaleNames)

\* a returned schedule with a Bin row, from a roster in which a performer off
\* the allow-list lists Bin
C6_BinWithMaleCandidate ==
  /\ returned
  /\ \E i \in DOMAIN result.assignments : result.assignments[i].role = "Bin"
  /\ \E m \in DOMAIN castMembers :
       "Bin" \in castMembers[m].eligibleRoles /\ castMembers[m].name \notin femaleNames

mondayOf(date) == date - ((date + 6) % 7)

\* the shows of S on the Friday, Saturday or Sunday of the week of a Monday
weekendShowsOf(S, monday) ==
  {s \in S : shows[s].date \in {monday + 4, monday + 5, monday + 6}}

\* the most Friday-to-Sunday shows of one week in which the performer holds a
\* real role
weekendLoad(rows, p) ==
  LET S == roleShows(rows, p) \cap ActiveShowIds
      loads == {Cardinality(weekendShowsOf(S, mondayOf(shows[s].date))) : s \in S} \cup {0}
  IN  CHOOSE n \in loads : \A m \in loads : m <= n

\* C8 as stated: in a schedule returned with success = true no performer holds
\* real roles in more than 4 shows on the Friday, Saturday and Sunday of a week.
C8_WeekendCapOfEverySuccess ==
  (returned /\ result.success) =>
    \A p \in Names : weekendLoad(result.assignments, p) <= 4

\* C8: in a schedule returned from an accepted constructive attempt no
\* performer holds real roles in more than 4 shows on the Friday, Saturday and
\* Sunday of a week.
C8_WeekendCapOfMainPath ==
  (returned /\ path = "main") =>
    \A p \in Names : weekendLoad(result.assignments, p) <= 4

\* a schedule returned from an accepted attempt in which a performer holds
\* exactly 4 weekend shows
C8_FourWeekendShows ==
  /\ returned
  /\ path = "main"
  /\ \E p \in Names : weekendLoad(result.assignments, p) = 4

\* the dates on which exactly 2 of the shows of S lie
twoShowDates(S) ==
  {d \in {shows[s].date : s \in S} : Cardinality({s \in S : shows[s].date = d}) = 2}

\* 2-show days on two calendar-adjacent dates
adjacentTwoShowDays(S) == \E d \in twoShowDates(S) : (d + 1) \in twoShowDates(S)

constructive == pc \in {"loop", "shows", "roles"} \/ (returned /\ path = "main")

\* C9: a constructive attempt never commits an assignment that gives a
\* performer 2-show days on two calendar-adjacent dates, and no schedule
\* returned from an accepted attempt holds such a pair of days.
C9_NoBackToBackDoubleDays ==
  /\ constructive =>
       \A p \in Names : ~adjacentTwoShowDays(performerShowIds(p) \cap ActiveShowIds)
  /\ (returned /\ path = "main") =>
       \A p \in Names :
         ~adjacentTwoShowDays(roleShows(result.assignments, p) \cap ActiveShowIds)

\* a role is open in the current show and the one more show would give a
\* performer who lists the role a second 2-show day next to the first
C9_CandidateBlocked ==
  /\ pc = "roles"
  /\ \E role \in Roles : \E p \in Names :
       /\ assignments[cur][role] = ""
       /\ role \in castMember(p).eligibleRoles
       /\ ~\E r \in Roles : assignments[cur][r] = p
       /\ adjacentTwoShowDays((performerShowIds(p) \cap ActiveShowIds) \cup {cur})

\* the performer's shows in show order
showsInOrder(rows, p) ==
  SelectSeq(getSortedActiveShows, LAMBDA s : holdsRole(rows, p, s))

\* positions a..b of the performer's shows form a run: each two successive
\* shows are at most 2 whole days apart
isRun(seq, a, b) ==
  \A k \in a..(b - 1) : (dateTime(seq[k + 1]) - dateTime(seq[k])) \div 1440 <= 2

\* the length of the performer's longest run
longestRunOf(rows, p) ==
  LET seq == showsInOrder(rows, p)
      lengths == {b - a + 1 : <<a, b>> \in {ab \in (DOMAIN seq) \X (DOMAIN seq) :
                                             ab[1] <= ab[2] /\ isRun(seq, ab[1], ab[2])}}
                   \cup {0}
  IN  CHOOSE n \in lengths : \A m \in lengths : m <= n

openSlots == {<<s, r>> \in ActiveShowIds \X Roles : assignments[s][r] = ""}

\* the slots of the working map that hold a performer
filledSlots == {<<s, r>> \in ShowIds \X Roles : assignments[s][r] # ""}

C12_NoExceptionEscapes ==
  /\ pc # "thrown"
  /\ (returned /\ path \in {"catch", "loadError"}) =>
       /\ ~result.success
       /\ result.assignments = <<>>
       /\ Len(result.errors) = 1
  /\ (returned /\ castMembers # <<>> /\ ActiveShowIds = {} /\ dayOffShowIds = {}) =>
       path = "catch"

\* the RED-day pass raised on a week without a show and the call returned
C12_RedDayPassRaised ==
  /\ returned
  /\ path = "catch"
  /\ castMembers # <<>>
  /\ ActiveShowIds = {}

\* an attempt is complete and the validator finds no critical error in it
attemptAccepted ==
  /\ pc = "shows"
  /\ remaining = {}
  /\ ~hasCriticalErrors(structuralErrors(convertToAssignments,
                                         cachedAnalysis(convertToAssignments,
                                                        performerShowCache)))

\* C13: autoGenerate returns on every input; it never starts more than 100
\* attempts; an accepted attempt is followed by the return and by no other
\* attempt; partial generation starts only after 100 attempts have failed or
\* been rejected, and once started it runs to the return.
C13_TerminatesWithin100Attempts ==
  /\ <>returned
  /\ [](attempt <= 100)
  /\ [][attemptAccepted => pc' = "done"]_vars
  /\ [][returned => UNCHANGED vars]_vars
  /\ [][(pc # "partial" /\ pc' = "partial") => (pc = "loop" /\ attempt = 100)]_vars
  /\ [][pc = "partial" => pc' \in {"partial", "done"}]_vars

\* partial generation is running after 100 attempts
C13_PartialAfter100 == pc = "partial" /\ attempt = 100 /\ partialPos > 0

\* a call of validateSchedule has been made
validatedOnce == validation # NoValidation

\* C14: validateSchedule returns for an assignment list what a fresh instance
\* returns for it, whatever lists were validated before on the instance.
C14_ValidateIsPure ==
  validatedOnce => validation = validateSchedule(validated, <<>>)

\* the performers of the rows of a list who are not in the roster, in a real
\* role or in an OFF row flagged isRedDay
unknownPerformers(rows) ==
  {rows[i].performer : i \in {j \in DOMAIN rows :
                                /\ rows[j].performer \notin Names
                                /\ (isStage(rows[j]) \/ rows[j].isRedDay)}}

\* C15: validateSchedule returns a result for every assignment list and does
\* not raise; every performer of a row, in a real role or in a RED-day row,
\* who is not in the roster is named by an error of the result.
C15_ValidateNeverThrows ==
  validatedOnce =>
    /\ ~validation.thrown
    /\ \A p \in unknownPerformers(validated) :
         \E e \in validation.errors : "performer" \in DOMAIN e /\ e.performer = p

\* the performers with RED rows on more than one date in a list
twoRedDates(rows) == {p \in Names : Cardinality(performerRedDays(rows, p)) > 1}

\* C16: a validated list in which some performer has RED days on two dates
\* and in which nothing else is reported as an error is valid: the second RED
\* date is a warning and not an error.
C16_TwoRedDatesIsWarning ==
  (/\ validatedOnce
   /\ ~validation.thrown
   /\ twoRedDates(validated) # {}
   /\ \A e \in validation.errors : e.kind = "moreThanOneRedDay")
  => /\ validation.isValid
     /\ validation.errors = {}

\* the number of active shows in which a performer holds a real role in a list
realRoleShows(rows, p) ==
  Cardinality({s \in ActiveShowIds :
                 \E i \in DOMAIN rows :
                   rows[i].showId = s /\ rows[i].performer = p /\ rows[i].role # "OFF"})

\* C17: when at least 4 shows have status "show", the underutilized warnings
\* of a validation name exactly the roster performers who hold real roles in
\* fewer than 2 of them.
C17_UnderutilizedBelowTwo ==
  (validatedOnce /\ ~validation.thrown /\ Cardinality(ActiveShowIds) >= 4)
  => \A p \in Names :
       ([kind |-> "underutilized", performer |-> p] \in validation.warnings)
         <=> realRoleShows(validated, p) < 2

\* C18: for the week of 8 shows and the roster of 12 in which every performer
\* lists one role, except the two of the allow-list who list Bin and Cornish,
\* autoGenerate returns the result of an accepted attempt and not the partial
\* fallback.
C18_StandardWeekConverges ==
  (shows = WeekStandard /\ castMembers = RosterTwelve /\ returned)
  => (path = "main" /\ result.success)

\* the dates from Monday to Friday that have an active show
weekdayShowDates == {shows[s].date : s \in {u \in ActiveShowIds : DayOfWeek(shows[u].date) \in 1..5}}

\* C19: without a company day off, when some date from Monday to Friday has a
\* show, no performer of a returned schedule has a RED day on a Saturday or a
\* Sunday.
C19_RedDayOnWeekday ==
  (/\ returned
   /\ result.success
   /\ detectCompanyDayOff = 0
   /\ weekdayShowDates # {})
  => \A p \in Names : \A d \in redDates(result.assignments, p) : DayOfWeek(d) \in 1..5

\* the performers without a natural full day off in the rows the RED-day pass
\* received, and the dates with the highest score
forcedPerformers == {p \in Names : ~hasNaturalDayOff(convertToAssignments, p)}

topScoredDates ==
  {d \in Range(availableDates) :
     \A e \in Range(availableDates) : redDayScore(e) <= redDayScore(d)}

forcedOnto(date) ==
  Cardinality({p \in forcedPerformers : date \in redDates(result.assignments, p)})

\* C20: when at least two performers lack a natural day off and at least two
\* dates share the highest score, the numbers of performers forced onto two
\* such dates differ by at most 1.
C20_ForcedRedDaysSpread ==
  (/\ returned
   /\ path \in {"main", "partial"}
   /\ detectCompanyDayOff = 0
   /\ Cardinality(forcedPerformers) >= 2
   /\ Cardinality(topScoredDates) >= 2)
  => \A d \in topScoredDates : \A e \in topScoredDates :
       Abs(forcedOnto(d) - forcedOnto(e)) <= 1

\* C21: the step that finds a role without a legal candidate leaves the
\* committed assignments as they are and ends the attempt; the step that leaves
\* the loop head for the next attempt or for partial generation starts from
\* empty role maps and empty OFF lists; every real-role row of a returned
\* schedule is a commit of the attempt, or partial generation, that returned.
C21_FailedAttemptLeavesNothing ==
  /\ [][(pc = "roles" /\ pc' # "roles" /\ pc' # "shows")
          => (pc' = "loop" /\ UNCHANGED <<assignments, offAssignments>>)]_vars
  /\ [][(pc = "loop" /\ pc' # "loop")
          => /\ \A s \in DOMAIN shows : \A r \in Roles : assignments'[s][r] = ""
             /\ \A s \in DOMAIN shows : offAssignments'[s] = {}]_vars
  /\ [](returned /\ path \in {"main", "partial"}
          => \A i \in DOMAIN result.assignments :
               LET a == result.assignments[i]
               IN  isStage(a) => assignments[a.showId][a.role] = a.performer)

\* an attempt has failed in a show after committing roles
C21_FailedWithCommits ==
  /\ pc = "loop"
  /\ attempt >= 1
  /\ \E s \in ActiveShowIds : \E r \in Roles : assignments[s][r] # ""
  /\ \E s \in ActiveShowIds : \E r \in Roles : assignments[s][r] = ""

\* the role a step of assignRolesForShow commits, "" when it commits none
committedRole ==
  IF pc = "roles" /\ \E r \in Roles : assignments'[cur][r] # assignments[cur][r]
  THEN CHOOSE r \in Roles : assignments'[cur][r] # assignments[cur][r]
  ELSE ""

\* the least current show count among the legal candidates of a role of the
\* current show
leastCandidateCount(role) ==
  LET candidates == getEligiblePerformers(role, cur)
  IN  CHOOSE n \in 0..Len(shows) :
        /\ \E i \in DOMAIN candidates : getCurrentShowCount(candidates[i]) = n
        /\ \A i \in DOMAIN candidates : getCurrentShowCount(candidates[i]) >= n

\* C22: the performer committed to a role has a current show count at most 1
\* above the least current show count of the legal candidates for the role.
C22_CommitWithinOneOfLeast ==
  [][committedRole # ""
       => getCurrentShowCount(assignments'[cur][committedRole])
            <= leastCandidateCount(committedRole) + 1]_vars

\* C23: within one show the roles are attempted in non-decreasing order of the
\* number of roster performers who list the role: no role is committed while
\* a role listed by fewer performers is still unfilled.
C23_RolesInScarcityOrder ==
  [][committedRole # ""
       => \A r \in Roles :
            assignments[cur][r] = "" => eligibleCount(committedRole) <= eligibleCount(r)]_vars

\* the performers partial generation may give the role of the show: they
\* list the role, pass the gender rule, are not on the show and have fewer
\* than 6 shows
partialCandidates(s, r) ==
  {p \in Names : /\ r \in castMember(p).eligibleRoles
                 /\ isPerformerEligibleForRole(p, r)
                 /\ \A q \in Roles : assignments[s][q] # p
                 /\ getCurrentShowCount(p) < 6}

\* the slot was filled or has its error
slotVisited(s, r) ==
  \/ assignments[s][r] # ""
  \/ \E i \in DOMAIN partialErrors : partialErrors[i].show = s /\ partialErrors[i].role = r

\* the slots partial generation takes before slot (s, r): those of scarcer
\* roles and of the roles listed before r among the equally scarce, and those
\* of the same role on earlier shows
slotsBefore(s, r) ==
  {x \in ActiveShowIds \X Roles :
     \/ eligibleCount(x[2]) < eligibleCount(r)
     \/ /\ eligibleCount(x[2]) = eligibleCount(r)
        /\ \E i, j \in DOMAIN roles : roles[i] = x[2] /\ roles[j] = r /\ i < j
     \/ x[2] = r /\ dateTime(x[1]) < dateTime(s)}

\* the slot a step of partial generation takes
slotTaken ==
  CHOOSE x \in ActiveShowIds \X Roles :
    /\ ~slotVisited(x[1], x[2])
    /\ \A y \in slotsBefore(x[1], x[2]) : slotVisited(y[1], y[2])

\* C24: partial generation takes the slots by role in scarcity order and by
\* show in chronological order; it fills the slot with a performer of least
\* show count among those who list the role, pass the gender rule, are not on
\* the show and have fewer than 6 shows, whatever the consecutive, weekend
\* and back-to-back predicates say; only when there is none it leaves the
\* slot blank and records one error naming the show and the role.
C24_PartialFillsLeastLoaded ==
  /\ [][(pc = "partial" /\ pc' = "partial")
          => LET s == slotTaken[1]
                 r == slotTaken[2]
                 candidates == partialCandidates(s, r)
             IN  IF candidates # {}
                 THEN /\ assignments'[s][r] \in candidates
                      /\ \A p \in candidates :
                           getCurrentShowCount(assignments'[s][r]) <= getCurrentShowCount(p)
                      /\ \A x \in (ShowIds \X Roles) \ {<<s, r>>} :
                           assignments'[x[1]][x[2]] = assignments[x[1]][x[2]]
                      /\ partialErrors' = partialErrors
                 ELSE /\ assignments' = assignments
                      /\ partialErrors' =
                           Append(partialErrors, [kind |-> "unfilled", show |-> s, role |-> r])]_vars
  /\ [](returned /\ path = "partial"
          => \A s \in ActiveShowIds : \A r \in Roles :
               Cardinality({i \in DOMAIN result.errors :
                              result.errors[i].show = s /\ result.errors[i].role = r})
                 = IF assignments[s][r] = "" THEN 1 ELSE 0)

\* partial generation returned a schedule with a blank slot, and a performer
\* holds a role the constraint checker refuses once the performer's other
\* shows are given
C24_PartialBeyondTheChecker ==
  /\ returned /\ path = "partial"
  /\ \E s \in ActiveShowIds : \E r \in Roles : assignments[s][r] = ""
  /\ \E s \in ActiveShowIds : \E r \in Roles :
       /\ assignments[s][r] # ""
       /\ weekendLoad(convertToAssignments, assignments[s][r]) > MaxWeekend

\* the shows in which the performer held a role before the RED-day pass and
\* holds none in the returned schedule
removedShows(p) ==
  {s \in ShowIds : /\ \E r \in Roles : assignments[s][r] = p
                   /\ ~holdsRole(result.assignments, p, s)}

\* C25: the RED-day pass removes real-role rows only of performers who hold a
\* role on every date that has shows, and of such a performer only rows of one
\* date; every other real-role row is returned as it was committed, and no
\* real-role row is added.
C25_OnlyForcedRowsRemoved ==
  (returned /\ path \in {"main", "partial"})
    => /\ \A p \in Names :
            /\ removedShows(p) # {} => worksEveryDate(p) /\ detectCompanyDayOff = 0
            /\ \A s, u \in removedShows(p) : shows[s].date = shows[u].date
       /\ \A s \in ShowIds : \A r \in Roles :
            (assignments[s][r] # "" /\ s \notin removedShows(assignments[s][r]))
              => Cardinality({i \in DOMAIN result.assignments :
                                /\ result.assignments[i].showId = s
                                /\ result.assignments[i].role = r
                                /\ result.assignments[i].performer = assignments[s][r]}) = 1
       /\ \A i \in DOMAIN result.assignments :
            LET a == result.assignments[i]
            IN  isStage(a) => assignments[a.showId][a.role] = a.performer

\* a returned schedule in which one performer lost the rows of one date and
\* kept those of another, and another performer lost none
C25_ForcedDateRemoved ==
  /\ returned /\ path = "main"
  /\ \E p \in Names :
       /\ removedShows(p) # {}
       /\ \E s \in ActiveShowIds : holdsRole(result.assignments, p, s)
  /\ \E p \in Names :
       /\ removedShows(p) = {}
       /\ \E s \in ActiveShowIds : holdsRole(result.assignments, p, s)

\* C26: for show a before show b in show order, areShowsConsecutive(a, b) is
\* true exactly when b starts at most 2 days (48 hours) after a starts;
\* stated for the pairs of shows the constraint checker compares, those in
\* which one performer holds roles.
C26_ConsecutiveWithinTwoDays ==
  \A a, b \in ActiveShowIds :
    (/\ showIndex(a) < showIndex(b)
     /\ \E p \in Names : {a, b} \subseteq performerShowIds(p))
      => (areShowsConsecutive(a, b) <=> dateTime(b) - dateTime(a) <= 2 * 24 * 60)

\* the hard violations validateSchedule reports for the returned schedule: a
\* show without 8 distinct performers, a missing role, a weekend or a
\* back-to-back violation
hardViolations ==
  {e \in validateSchedule(result.assignments, performerShowCache).errors :
     e.kind \in {"missingPerformers", "tooManyPerformers", "missingRoles", "weekend",
                 "backToBack"}}

\* C27: when the schedule returned with success = true has a hard violation
\* that validateSchedule reports, the errors list of the result is present and
\* not empty.
C27_ViolationsComeWithErrors ==
  (returned /\ result.success /\ hardViolations # {}) => result.errors # <<>>

\* the attempt has filled all roles of all shows and stands before the
\* acceptance check
attemptComplete == pc = "shows" /\ remaining = {}

\* C28: an attempt that filled all roles of all shows passes the acceptance
\* check: validateSchedule reports no headcount, duplicate-role, eligibility,
\* consecutive, weekend or back-to-back error for it, and the attempt counter
\* advances only when construction failed at a role.
C28_CompleteAttemptsAreAccepted ==
  /\ [](attemptComplete
          => \A e \in validateSchedule(convertToAssignments, performerShowCache).errors :
               e.kind \notin {"missingPerformers", "tooManyPerformers", "multipleRoles",
                              "notInEligibleRoles", "consecutive", "weekend", "backToBack"})
  /\ [][attemptComplete => pc' # "loop"]_vars
  /\ [][attempt' # attempt => pc = "roles"]_vars

\* an accepted attempt in which a performer holds as many weekend shows as
\* the weekend rule allows
C28_AcceptedAtTheWeekendCap ==
  /\ returned /\ path = "main"
  /\ \E p \in Names : weekendLoad(convertToAssignments, p) = MaxWeekend

\* C29: validateSchedule applied to a returned schedule reports no RED-day
\* finding: no "more than one RED day" and no "RED day but assigned to a
\* role" error, and no "does not have a RED day" warning, with and without a
\* company day off.
C29_ReturnedRedDaysValidate ==
  (returned /\ path \in {"main", "partial"})
    => LET v == validateSchedule(result.assignments, performerShowCache)
       IN  /\ ~v.thrown
           /\ \A e \in v.errors : e.kind \notin {"moreThanOneRedDay", "roleOnRedDay"}
           /\ \A w \in v.warnings : w.kind # "noRedDay"

\* the dates with shows on which the performer holds no real role in the
\* returned schedule
datesWithoutRole(p) ==
  {d \in {shows[s].date : s \in ActiveShowIds} :
     ~\E s \in ActiveShowIds : shows[s].date = d /\ holdsRole(result.assignments, p, s)}

\* C30: dayOffStats[p] of a result is the number of dates with shows on which
\* p holds no real role, plus one when a company day off exists, and a
\* fairness warning names every performer for whom that number is 2 or more.
C30_DayOffStatsCountFreeDates ==
  (returned /\ path \in {"main", "partial"})
    => \A p \in Names :
         LET n == Cardinality(datesWithoutRole(p)) + (IF detectCompanyDayOff # 0 THEN 1 ELSE 0)
         IN  /\ dayOffStats[p] = n
             /\ n >= 2 => \E w \in fairnessWarnings :
                            w.performer = p /\ w.kind \in {"manyDaysOff", "daysOff"}

====
